---- MODULE Spec2Model ----
(***************************************************************************)
(* React 18 demo (src/src/App.tsx): a simulated product API, the Suspense  *)
(* resource built on it, and the App component that reads the resource     *)
(* through Suspense, useTransition, useDeferredValue and an ErrorBoundary. *)
(*                                                                         *)
(* Strings are sequences of one-character strings ("U2011" stands for the  *)
(* non-breaking hyphen of two catalog titles).  A list of products is a    *)
(* sequence of positions in ALL_PRODUCTS: Array.prototype.filter keeps     *)
(* references to the catalog's own objects.                                *)
(***************************************************************************)
EXTENDS Naturals, Sequences, FiniteSets

\* ------------------------------------------------------------ bounds
\* Number of input events (handleChange calls) of a run.
MaxInputs == 2
\* Longest query string drawn for the fetchProducts specification.
MaxLen == 3

\* ------------------------------------------------------------ strings
UPPER ==
  <<"A", "B", "C", "D", "E", "F", "G", "H", "I", "J", "K", "L", "M",
    "N", "O", "P", "Q", "R", "S", "T", "U", "V", "W", "X", "Y", "Z">>

LOWER ==
  <<"a", "b", "c", "d", "e", "f", "g", "h", "i", "j", "k", "l", "m",
    "n", "o", "p", "q", "r", "s", "t", "u", "v", "w", "x", "y", "z">>

DIGITS ==
  <<"0", "1", "2", "3", "4", "5", "6", "7", "8", "9">>

\* The white space String.prototype.trim removes (of the characters used here).
WhiteSpace == {" ", "\t"}

\* One character of String.prototype.toLowerCase.
LowerChar(c) ==
  IF \E k \in 1..Len(UPPER) : UPPER[k] = c
    THEN LOWER[CHOOSE k \in 1..Len(UPPER) : UPPER[k] = c]
    ELSE c

RECURSIVE toLowerCase(_)
toLowerCase(s) ==
  IF s = <<>> THEN <<>> ELSE <<LowerChar(Head(s))>> \o toLowerCase(Tail(s))

\* String.prototype.trim: drop the leading and the trailing white space.
trim(s) ==
  LET inked == {i \in 1..Len(s) : s[i] \notin WhiteSpace}
  IN  IF inked = {} THEN <<>>
      ELSE LET first == CHOOSE i \in inked : \A j \in inked : i <= j
               last  == CHOOSE i \in inked : \A j \in inked : j <= i
           IN  SubSeq(s, first, last)

\* String.prototype.includes: q occurs in s as a contiguous substring.
includes(s, q) ==
  /\ Len(q) <= Len(s)
  /\ \E i \in 0..(Len(s) - Len(q)) : SubSeq(s, i + 1, i + Len(q)) = q

\* String(n) for a natural number n: its decimal digits.
RECURSIVE String(_)
String(n) ==
  IF n < 10 THEN <<DIGITS[n + 1]>>
  ELSE String(n \div 10) \o <<DIGITS[(n % 10) + 1]>>

\* ------------------------------------------------------------ simulated API
CatalogLength == 250

TITLES ==
  << <<"E", "s", "p", "r", "e", "s", "s", "o", " ", "M", "a", "c", "h", "i", "n", "e">>,
     <<"I", "n", "d", "u", "c", "t", "i", "o", "n", " ", "C", "o", "o", "k", "t", "o", "p">>,
     <<"C", "h", "e", "f", " ", "K", "n", "i", "f", "e">>,
     <<"C", "a", "s", "t", "U2011", "I", "r", "o", "n", " ", "S", "k", "i", "l", "l", "e", "t">>,
     <<"B", "a", "k", "e", "w", "a", "r", "e", " ", "S", "e", "t">>,
     <<"R", "a", "n", "g", "e", " ", "H", "o", "o", "d">>,
     <<"D", "i", "s", "h", "w", "a", "s", "h", "e", "r">>,
     <<"S", "t", "e", "a", "m", " ", "O", "v", "e", "n">>,
     <<"C", "o", "m", "b", "i", " ", "O", "v", "e", "n">>,
     <<"S", "o", "u", "s", "U2011", "v", "i", "d", "e", " ", "S", "t", "i", "c", "k">> >>

BRANDS ==
  << <<"A", "r", "a", "n">>,
     <<"B", "e", "r", "t", "a", "z", "z", "o", "n", "i">>,
     <<"C", "a", "e", "s", "a", "r", "s", "t", "o", "n", "e">>,
     <<"R", "a", "d", "i", "a", "n", "z">> >>

\* The record Array.from's map callback builds for index i (0-based).
Product(i) ==
  [ id    |-> String(i + 1),
    title |-> TITLES[(i % 10) + 1] \o <<" ">> \o String(i + 1),
    brand |-> BRANDS[(i % 4) + 1],
    price |-> 99 + ((i * 17) % 900) ]

\* ALL_PRODUCTS[k] is the element at array index k - 1.
ALL_PRODUCTS ==
  SubSeq([k \in 1..CatalogLength |-> Product(k - 1)], 1, CatalogLength)

\* The same catalog with title and brand lower-cased, as both filters see it.
LoweredCatalog ==
  SubSeq([k \in 1..CatalogLength |->
            [ title |-> toLowerCase(ALL_PRODUCTS[k].title),
              brand |-> toLowerCase(ALL_PRODUCTS[k].brand) ]],
         1, CatalogLength)

\* Variant of the filter callback that looks at the title only.
MatchesTitleOnly(k, q) == includes(LoweredCatalog[k].title, q)

\* The filter callback shared by fetchProducts (lines 48-50) and by
\* ProductsPanel (line 169): q occurs in the lower-cased title or brand.
Matches(k, q) ==
  \/ includes(LoweredCatalog[k].title, q)
  \/ includes(LoweredCatalog[k].brand, q)

\* Array.prototype.filter over a list of catalog positions, order kept.
Filter(list, q) == SelectSeq(list, LAMBDA k : Matches(k, q))

CatalogList == SubSeq([k \in 1..CatalogLength |-> k], 1, CatalogLength)

\* fetchProducts, line 44: the query the timer callback closes over.
Normalize(query) == trim(toLowerCase(query))

\* The query strings typed into the search box.
Queries ==
  { <<>>,
    <<"3", "7">>,
    <<"A", "r", "a", "n", " ">> }

\* fetchProducts, lines 47-52: the list the timer callback filters out of
\* the catalog for the normalized query q.
Filtered(q) == Filter(CatalogList, q)

\* Normalize(x) for each x of Queries.
NormalizedQueries == { <<>>, <<"3", "7">>, <<"a", "r", "a", "n">> }

\* The lists for the queries typed into the search box, computed once.
FilteredForQueries == [q \in NormalizedQueries |-> Filtered(q)]

\* The list the promise resolves to.
Resolved(q) ==
  IF q \in DOMAIN FilteredForQueries THEN FilteredForQueries[q] ELSE Filtered(q)

\* ------------------------------------------------------------ state
VARIABLES
  resources,           \* every Resource created: [status, result, arg]
  timers,              \* armed setTimeout callbacks of fetchProducts: [res, q]
  query,               \* App state, committed (the input's value)
  resource,            \* App state, committed: the current Resource
  isPending,           \* useTransition's flag, committed
  error,               \* ErrorBoundary state.error, committed
  panel,               \* what the boundaries show: "fallback", "list", "error"
  deferredQuery,       \* ProductsPanel's useDeferredValue state, committed
  visible,             \* the list ProductsPanel rendered, committed
  shownFrom,           \* the Resource the rendered list was read from (0: none)
  transitionQueue,     \* setResource updates waiting in the transition lanes
  transitionSuspended, \* the transition render threw a suspender and waits
  pingOn,              \* Resources whose suspender a suspended render waits on
  retryOn,             \* Resources whose suspender the shown fallback waits on
  retryLane,           \* a retry render of the Suspense boundary is scheduled
  readReturned,        \* history: Resources whose read() returned a value
  supersededPending,   \* history: Resources still pending when the next was made
  inputs,              \* history: number of input events so far
  retried              \* history: the Try again button has been pressed

vars ==
  << resources, timers, query, resource, isPending, error, panel,
     deferredQuery, visible, shownFrom, transitionQueue, transitionSuspended,
     pingOn, retryOn, retryLane, readReturned, supersededPending, inputs,
     retried >>

Null == [tag |-> "null"]
Undefined == [tag |-> "undefined"]
Value(list) == [tag |-> "value", list |-> list]
\* The reason a failing fetch rejects with: an Error object of its own.
Reason(r) == [tag |-> "reason", of |-> r]
Suspender(r) == [tag |-> "suspender", of |-> r]

\* ------------------------------------------------------------ Resource
\* createResource, lines 58-59: the closure's status and result; arg records
\* the query whose fetch the promise belongs to.
createResource(res, arg) ==
  Append(res, [status |-> "pending", result |-> Undefined, arg |-> arg])

\* The fulfilment callback, lines 61-64.
onFulfilled(res, r, v) ==
  [res EXCEPT ![r].status = "success", ![r].result = Value(v)]

\* The rejection callback, lines 65-68.
onRejected(res, r, e) ==
  [res EXCEPT ![r].status = "error", ![r].result = e]

\* Variants of read(): one that hands out result while pending, one that
\* throws an error of its own, one that resets the closure when it throws.
readReturnsWhilePending(res, r) ==
  CASE res[r].status = "error" ->
         [kind |-> "throw", result |-> res[r].result, res |-> res]
    [] OTHER ->
         [kind |-> "return", result |-> res[r].result, res |-> res]

readWrapsReason(res, r) ==
  CASE res[r].status = "pending" ->
         [kind |-> "suspend", result |-> Suspender(r), res |-> res]
    [] res[r].status = "error" ->
         [kind |-> "throw", result |-> Reason(0), res |-> res]
    [] OTHER ->
         [kind |-> "return", result |-> res[r].result, res |-> res]

readResetsOnError(res, r) ==
  CASE res[r].status = "pending" ->
         [kind |-> "suspend", result |-> Suspender(r), res |-> res]
    [] res[r].status = "error" ->
         [kind |-> "throw", result |-> res[r].result,
          res |-> [res EXCEPT ![r].status = "pending", ![r].result = Undefined]]
    [] OTHER ->
         [kind |-> "return", result |-> res[r].result, res |-> res]

\* read(), lines 72-76: what the call does (suspend: throws the suspender,
\* throw: throws result, return: returns result) and the closure afterwards.
read(res, r) ==
  CASE res[r].status = "pending" ->
         [kind |-> "suspend", result |-> Suspender(r), res |-> res]
    [] res[r].status = "error" ->
         [kind |-> "throw", result |-> res[r].result, res |-> res]
    [] OTHER ->
         [kind |-> "return", result |-> res[r].result, res |-> res]

\* ------------------------------------------------------------ rendering
\* useDeferredValue(query), line 158.  A mounted ProductsPanel keeps its
\* previous value through an urgent render (and React schedules a render in
\* the transition lanes, which carry handleChange's setResource as well);
\* a render in the transition lanes, and a mount, take the value passed.
useDeferredValue(q, mounted, urgent) ==
  IF mounted /\ urgent THEN deferredQuery ELSE q

\* useMemo(..., [data, deferredQuery]), lines 162-170: a mounted panel whose
\* data and deferred query are those of its last render keeps its list.
useMemo(data, rs, deferred, mounted) ==
  IF mounted /\ rs = shownFrom /\ deferred = deferredQuery
    THEN visible
    ELSE Filter(data, toLowerCase(deferred))

\* ProductsPanel, lines 156-170: the deferred query, the read, the filter.
ProductsPanel(res, rs, q, mounted, urgent) ==
  LET deferred == useDeferredValue(q, mounted, urgent)
      data     == read(res, rs)
  IN  [ kind     |-> data.kind,
        result   |-> data.result,
        res      |-> data.res,
        deferred |-> deferred,
        visible  |-> IF data.kind = "return"
                       THEN useMemo(data.result.list, rs, deferred, mounted)
                       ELSE <<>> ]

\* <ErrorBoundary><Suspense><ProductsPanel/></Suspense></ErrorBoundary>,
\* lines 228-232, rendered with Resource rs, query q and boundary state err.
\*   - ErrorBoundary.render (lines 89-107) shows its panel and renders no
\*     child while err is set; getDerivedStateFromError (line 86) records
\*     what a child threw.
\*   - Suspense shows the fallback when the child throws a suspender, except
\*     that a transition never hides a list already shown: that render is
\*     left uncommitted and waits for the suspender (commit = FALSE).
Boundaries(res, rs, q, err, urgent, transition) ==
  IF err # Null
    THEN [ commit |-> TRUE, res |-> res, error |-> err, panel |-> "error",
           deferredQuery |-> <<>>, visible |-> <<>>, shownFrom |-> 0,
           waitsOn |-> {}, returned |-> {} ]
    ELSE
      LET p == ProductsPanel(res, rs, q, panel = "list", urgent)
      IN  CASE p.kind = "return" ->
                 [ commit |-> TRUE, res |-> p.res, error |-> Null,
                   panel |-> "list", deferredQuery |-> p.deferred,
                   visible |-> p.visible, shownFrom |-> rs,
                   waitsOn |-> {}, returned |-> {rs} ]
            [] p.kind = "throw" ->
                 [ commit |-> TRUE, res |-> p.res, error |-> p.result,
                   panel |-> "error", deferredQuery |-> <<>>,
                   visible |-> <<>>, shownFrom |-> 0,
                   waitsOn |-> {}, returned |-> {} ]
            [] OTHER ->
                 [ commit |-> ~(transition /\ panel = "list"), res |-> p.res,
                   error |-> Null, panel |-> "fallback",
                   deferredQuery |-> <<>>, visible |-> <<>>, shownFrom |-> 0,
                   waitsOn |-> {rs}, returned |-> {} ]

\* Committing a render of the boundaries: the view, and the retry listener
\* React attaches to the suspender a shown fallback waits on.  An unmounted
\* Suspense boundary (error panel) has no listeners left.
CommitView(r) ==
  /\ error' = r.error
  /\ panel' = r.panel
  /\ deferredQuery' = r.deferredQuery
  /\ visible' = r.visible
  /\ shownFrom' = r.shownFrom
  /\ retryOn' = IF r.panel = "error" THEN {}
                ELSE IF error # Null THEN r.waitsOn
                ELSE retryOn \cup r.waitsOn

\* ------------------------------------------------------------ App
\* Variant: setQuery called inside startTransition leaves the urgent render
\* with the old query.
setQueryInTransition(q, next) == q

\* setQuery(next), line 216.
setQuery(q, next) == next

\* Variant: the first queued update stands.
FirstUpdate(queue) == queue[1]

\* The state the transition render computes from the queued setResource
\* updates (line 219): they are applied in order, so the last one stands.
LastUpdate(queue) == queue[Len(queue)]

\* Variant: isPending is not raised by the event.
PendingFlagLate(p) == p

\* startTransition, line 218: isPending is set at once, urgently.
PendingFlag(p) == TRUE

Init ==
  /\ resources = createResource(<<>>, <<>>)
  /\ timers = {[res |-> 1, q |-> Normalize(<<>>)]}
  /\ query = <<>>
  /\ resource = 1
  /\ isPending = FALSE
  /\ error = Null
  /\ panel = "fallback"
  /\ deferredQuery = <<>>
  /\ visible = <<>>
  /\ shownFrom = 0
  /\ transitionQueue = <<>>
  /\ transitionSuspended = FALSE
  /\ pingOn = {}
  /\ retryOn = {1}
  /\ retryLane = FALSE
  /\ readReturned = {}
  /\ supersededPending = {}
  /\ inputs = 0
  /\ retried = FALSE

\* handleChange(next), lines 215-221, with the urgent render React runs
\* before the event returns: query and isPending change, the Resource shown
\* is still the committed one, the new one waits in the transition lanes.
handleChange(next) ==
  /\ next # query
  /\ LET n       == Len(resources) + 1
         created == createResource(resources, next)
         r       == Boundaries(created, resource, setQuery(query, next),
                               error, TRUE, FALSE)
     IN  /\ resources' = r.res
         /\ timers' = timers \cup {[res |-> n, q |-> Normalize(next)]}
         /\ query' = setQuery(query, next)
         /\ isPending' = PendingFlag(isPending)
         /\ transitionQueue' = Append(transitionQueue, n)
         /\ transitionSuspended' = FALSE
         /\ CommitView(r)
         /\ readReturned' = readReturned \cup r.returned
         /\ supersededPending' =
              IF resources[n - 1].status = "pending"
                THEN supersededPending \cup {n - 1}
                ELSE supersededPending
  /\ inputs' = inputs + 1
  /\ UNCHANGED <<resource, pingOn, retryLane, retried>>

\* The render of the transition lanes: the queued setResource updates and
\* setPending(false), with the deferred query caught up.  It commits unless
\* it would replace a shown list by the fallback.
TransitionRender ==
  /\ transitionQueue # <<>>
  /\ ~transitionSuspended
  /\ LET rs == LastUpdate(transitionQueue)
         r  == Boundaries(resources, rs, query, error, FALSE, TRUE)
     IN  /\ resources' = r.res
         /\ IF r.commit
              THEN /\ resource' = rs
                   /\ isPending' = FALSE
                   /\ transitionQueue' = <<>>
                   /\ CommitView(r)
                   /\ readReturned' = readReturned \cup r.returned
                   /\ UNCHANGED <<transitionSuspended, pingOn>>
              ELSE /\ transitionSuspended' = TRUE
                   /\ pingOn' = pingOn \cup r.waitsOn
                   /\ UNCHANGED <<resource, isPending, transitionQueue, error,
                                  panel, deferredQuery, visible, shownFrom,
                                  retryOn, readReturned>>
  /\ UNCHANGED <<timers, query, retryLane, supersededPending, inputs, retried>>

\* The retry render React schedules when the suspender a shown fallback
\* waits on settles.  Retry lanes come after the transition lanes.
RetryLaneIsNext == transitionQueue = <<>> \/ transitionSuspended

RetryRender ==
  /\ retryLane
  /\ RetryLaneIsNext
  /\ retryLane' = FALSE
  /\ IF panel = "fallback"
       THEN LET r == Boundaries(resources, resource, query, error, FALSE, FALSE)
            IN  /\ resources' = r.res
                /\ CommitView(r)
                /\ readReturned' = readReturned \cup r.returned
       ELSE UNCHANGED <<resources, error, panel, deferredQuery, visible,
                        shownFrom, retryOn, readReturned>>
  /\ UNCHANGED <<timers, query, resource, isPending, transitionQueue,
                 transitionSuspended, pingOn, supersededPending, inputs,
                 retried>>

\* Variant: the ping of a suspended transition render is lost.
WakeWithoutPing(r) ==
  /\ retryLane' = IF r \in retryOn THEN TRUE ELSE retryLane
  /\ retryOn' = retryOn \ {r}
  /\ UNCHANGED <<transitionSuspended, pingOn>>

\* What React's listeners on a settled suspender do: a ping lets the
\* suspended transition render run again, a retry schedules the retry render.
Wake(r) ==
  /\ transitionSuspended' = IF r \in pingOn THEN FALSE ELSE transitionSuspended
  /\ pingOn' = pingOn \ {r}
  /\ retryLane' = IF r \in retryOn THEN TRUE ELSE retryLane
  /\ retryOn' = retryOn \ {r}

\* A promise settles once: its timer is a one-shot setTimeout (line 47).
ClearTimer(ts, t) == ts \ {t}

\* The setTimeout callback of fetchProducts, lines 47-52, then the
\* reactions of the promise: createResource's callback, React's listeners.
TimerFires(t) ==
  /\ t \in timers
  /\ timers' = ClearTimer(timers, t)
  /\ resources' = onFulfilled(resources, t.res, Resolved(t.q))
  /\ Wake(t.res)
  /\ UNCHANGED <<query, resource, isPending, error, panel, deferredQuery,
                 visible, shownFrom, transitionQueue, readReturned,
                 supersededPending, inputs, retried>>

Next ==
  \/ \E next \in Queries : inputs < MaxInputs /\ handleChange(next)
  \/ TransitionRender
  \/ RetryRender
  \/ \E t \in timers : TimerFires(t)

Spec == Init /\ [][Next]_vars

\* ------------------------------------------------------------ failing fetch
\* fetchProducts never rejects; createResource takes any promise.  Here the
\* promise behind a Resource may reject instead: the rejection callback runs,
\* then React's listeners.
FetchRejects(t, e) ==
  /\ t \in timers
  /\ timers' = ClearTimer(timers, t)
  /\ resources' = onRejected(resources, t.res, e)
  /\ Wake(t.res)
  /\ UNCHANGED <<query, resource, isPending, error, panel, deferredQuery,
                 visible, shownFrom, transitionQueue, readReturned,
                 supersededPending, inputs, retried>>

\* The Try again button, lines 97-102 (rendered in the error panel only):
\* setState({ error: null }) and the urgent render that follows, which
\* mounts Suspense and ProductsPanel anew with the committed App state.
TryAgain ==
  /\ panel = "error"
  /\ LET r == Boundaries(resources, resource, query, Null, TRUE, FALSE)
     IN  /\ resources' = r.res
         /\ CommitView(r)
         /\ readReturned' = readReturned \cup r.returned
  /\ retried' = TRUE
  /\ UNCHANGED <<timers, query, resource, isPending, transitionQueue,
                 transitionSuspended, pingOn, retryLane, supersededPending,
                 inputs>>

NextFault ==
  \/ \E next \in Queries : inputs < MaxInputs /\ handleChange(next)
  \/ TransitionRender
  \/ RetryRender
  \/ \E t \in timers : TimerFires(t)
  \/ \E t \in timers : FetchRejects(t, Reason(t.res))
  \/ TryAgain

SpecFault == Init /\ [][NextFault]_vars

\* ------------------------------------------------------------ scheduling
\* Armed timers fire and React runs the renders it has scheduled: while
\* any of that work is outstanding, some of it is eventually done.
Background ==
  \/ \E t \in timers : TimerFires(t)
  \/ TransitionRender
  \/ RetryRender

LiveSpec == Spec /\ WF_vars(Background)

\* ------------------------------------------------------------ fetchProducts alone
Alphabet == {" ", "a", "R", "n", "3"}

RECURSIVE StringsOfLength(_)
StringsOfLength(n) ==
  IF n = 0 THEN {<<>>}
  ELSE {Append(s, c) : s \in StringsOfLength(n - 1), c \in Alphabet}

QueryStrings == UNION {StringsOfLength(n) : n \in 0..MaxLen}

\* createResource(fetchProducts(q)) for any query string q of the bounded
\* set, as App's initial state does for "" (line 212).
InitFetch ==
  \E q \in QueryStrings :
    /\ resources = createResource(<<>>, q)
    /\ timers = {[res |-> 1, q |-> Normalize(q)]}
    /\ query = q
    /\ resource = 1
    /\ isPending = FALSE
    /\ error = Null
    /\ panel = "fallback"
    /\ deferredQuery = <<>>
    /\ visible = <<>>
    /\ shownFrom = 0
    /\ transitionQueue = <<>>
    /\ transitionSuspended = FALSE
    /\ pingOn = {}
    /\ retryOn = {1}
    /\ retryLane = FALSE
    /\ readReturned = {}
    /\ supersededPending = {}
    /\ inputs = 0
    /\ retried = FALSE

NextFetch == \E t \in timers : TimerFires(t)

SpecFetch == InitFetch /\ [][NextFetch]_vars

\* ------------------------------------------------------------ properties
Settled(r) == resources[r].status # "pending"

Latest == Len(resources)

\* C1: a Resource's status changes at most once, only from pending to
\* success or to error, and after that change neither its status nor its
\* cached result changes again, whatever reads and settlements interleave.
C1_WriteOnce ==
  [][\A r \in DOMAIN resources :
       resources'[r] # resources[r] =>
         /\ resources[r].status = "pending"
         /\ resources'[r].status \in {"success", "error"}]_vars

C1_Witness ==
  \E r, f \in DOMAIN resources :
    /\ resources[r].status = "success"
    /\ shownFrom = r
    /\ resources[f].status = "error"
    /\ retried

\* C2: read() on a pending Resource throws the suspender and returns
\* nothing; on a settled Resource it returns the cached value (success) or
\* throws the cached reason (error), and a later read() does the same with
\* the identical value or reason.
C2_ReadReflectsSettlement ==
  /\ [](\A r \in DOMAIN resources :
          /\ resources[r].status = "pending" =>
               read(resources, r).kind = "suspend"
          /\ r \in readReturned => resources[r].status = "success")
  /\ [][\A r \in DOMAIN resources :
          Settled(r) =>
            /\ read(resources, r).kind =
                 (IF resources[r].status = "success" THEN "return" ELSE "throw")
            /\ read(resources', r).kind = read(resources, r).kind
            /\ read(resources', r).result = read(resources, r).result]_vars

C2_Witness ==
  /\ panel = "list"
  /\ isPending
  /\ shownFrom = resource
  /\ \E f \in DOMAIN resources : resources[f].status = "error"

\* Case-insensitive containment, character by character.
ContainsIgnoringCase(text, s) ==
  \E i \in 0..(Len(text) - Len(s)) :
    \A j \in 1..Len(s) : LowerChar(text[i + j]) = LowerChar(s[j])

MatchingPositions(s) ==
  {k \in 1..CatalogLength :
     \/ ContainsIgnoringCase(ALL_PRODUCTS[k].title, s)
     \/ ContainsIgnoringCase(ALL_PRODUCTS[k].brand, s)}

\* list is the subsequence of the catalog at exactly the positions in set,
\* in catalog order.
IsSubsequenceAt(list, set) ==
  /\ {list[i] : i \in 1..Len(list)} = set
  /\ \A i, j \in 1..Len(list) : i < j => list[i] < list[j]

\* C3 as stated: the resolved list is the catalog's subsequence of records
\* whose title or brand contains q itself, ignoring case.
C3_ContainsQuery ==
  \A r \in DOMAIN resources :
    resources[r].status = "success" =>
      IsSubsequenceAt(resources[r].result.list,
                      MatchingPositions(resources[r].arg))

\* C3, amended: the resolved list is the catalog's subsequence of records
\* whose title or brand contains q with its leading and trailing white
\* space removed, ignoring case, in catalog order.
C3_ContainsTrimmedQuery ==
  \A r \in DOMAIN resources :
    resources[r].status = "success" =>
      IsSubsequenceAt(resources[r].result.list,
                      MatchingPositions(trim(resources[r].arg)))

C3_Witness ==
  \E r \in DOMAIN resources :
    /\ resources[r].status = "success"
    /\ trim(resources[r].arg) # resources[r].arg
    /\ toLowerCase(resources[r].arg) # resources[r].arg
    /\ Len(resources[r].result.list) \in 1..(CatalogLength - 1)

C5_RecoversOnNewResource ==
  (/\ resources[resource].status = "success"
   /\ transitionQueue = <<>>
   /\ ~retryLane) => panel # "error"

\* C6: Try again only clears the boundary's error: query, the current
\* Resource, every Resource's state and the armed fetches stay as they are,
\* and when the current Resource is in the error state the same reason is
\* captured again and the error panel is shown again.
C6_RetryOnlyClears ==
  [][TryAgain =>
       /\ query' = query
       /\ resource' = resource
       /\ resources' = resources
       /\ timers' = timers
       /\ transitionQueue' = transitionQueue
       /\ (resources[resource].status = "error" =>
             /\ panel' = "error"
             /\ error' = resources[resource].result)]_vars

C6_Witness ==
  /\ retried
  /\ panel = "error"
  /\ resources[resource].status = "error"
  /\ error = resources[resource].result

\* C7: whenever the list is shown and isPending is false, the list was read
\* from the current Resource, which is the latest one created and was
\* created for the current query.
C7_NoStaleAsCurrent ==
  (panel = "list" /\ ~isPending) =>
    /\ shownFrom = resource
    /\ shownFrom = Latest
    /\ resources[shownFrom].arg = query

C7_Witness ==
  /\ panel = "list"
  /\ ~isPending
  /\ inputs > 0
  /\ \E r \in DOMAIN resources : r < shownFrom /\ resources[r].status = "success"

\* C8: when handleChange(next) has run, the committed query (the input's
\* value) is next, whatever the current Resource's status, isPending and the
\* fetches in flight were; the current Resource is not replaced by the event.
C8_InputImmediate ==
  [][\A next \in Queries :
       (inputs' # inputs /\ handleChange(next)) =>
         (query' = next /\ resource' = resource)]_vars

C8_Witness ==
  /\ inputs >= 2
  /\ query = resources[Latest].arg
  /\ isPending
  /\ panel = "error"
  /\ Len(transitionQueue) = 2
  /\ \A r \in {Latest - 1, Latest} : resources[r].status = "pending"

Quiescent ==
  /\ Settled(Latest)
  /\ resource = Latest
  /\ ~isPending
  /\ panel = "list"
  /\ deferredQuery = query

\* C9: with timers firing and scheduled renders running, the system reaches
\* and stays in a state where the latest Resource is settled and current,
\* isPending is false and the deferred query equals the query.
C9_Converges == <>[]Quiescent

C9_Witness == Quiescent /\ inputs > 0 /\ supersededPending # {}

\* C10: when the list is shown for the query the current Resource was
\* fetched for, it is exactly the list the fetch resolved to.
C10_FiltersAgree ==
  (panel = "list" /\ deferredQuery = resources[shownFrom].arg) =>
    visible = resources[shownFrom].result.list

====
